---- MODULE Spec2Model ----
(***************************************************************************)
(* Model of decade-trends/parse_generators.py: the three pandas pipelines  *)
(* parse_generators, parse_proposed and parse_retired, the column-label    *)
(* normalisation they each inline, and the energy_source_mapping table.    *)
(*                                                                         *)
(* A DataFrame is a record [columns, index, data]: columns is the sequence *)
(* of column labels, index the sequence of row labels, data the sequence   *)
(* of rows, each a sequence of cells aligned with columns.  Column labels  *)
(* are sequences of one-character strings, so that str.lower, str.replace  *)
(* and str.split are computed character by character.  A cell is a record  *)
(* [k, n, d, s]: an integer n, a float n/d, a string s, or NaN.            *)
(***************************************************************************)
EXTENDS Integers, Sequences, FiniteSets, TLC

VARIABLES call, sheet, normalized, renamed, result

vars == <<call, sheet, normalized, renamed, result>>

(***************************************************************************)
(* Cells                                                                   *)
(***************************************************************************)
IntCell(n) == [k |-> "int", n |-> n, d |-> 1, s |-> ""]
FloatCell(n, d) == [k |-> "float", n |-> n, d |-> d, s |-> ""]
StrCell(s) == [k |-> "str", n |-> 0, d |-> 1, s |-> s]
NaN == [k |-> "nan", n |-> 0, d |-> 1, s |-> ""]
Blank == StrCell(" ")

IsNumber(c) == c.k \in {"int", "float"}

(***************************************************************************)
(* Column labels the code names                                            *)
(***************************************************************************)
nameplate == <<"n","a","m","e","p","l","a","t","e">>
nameplate_capacity == <<"n","a","m","e","p","l","a","t","e","_","c","a","p","a","c","i","t","y">>
sector_name == <<"s","e","c","t","o","r","_","n","a","m","e">>
sector == <<"s","e","c","t","o","r">>
sector_code == <<"s","e","c","t","o","r","_","c","o","d","e">>
generator_uuid == <<"g","e","n","e","r","a","t","o","r","_","u","u","i","d">>
utility_name == <<"u","t","i","l","i","t","y","_","n","a","m","e">>
plant_name == <<"p","l","a","n","t","_","n","a","m","e">>
plant_code == <<"p","l","a","n","t","_","c","o","d","e">>
generator_id == <<"g","e","n","e","r","a","t","o","r","_","i","d">>
state == <<"s","t","a","t","e">>
county == <<"c","o","u","n","t","y">>
status == <<"s","t","a","t","u","s">>
energy_source_1 == <<"e","n","e","r","g","y","_","s","o","u","r","c","e","_","1">>
energy_source == <<"e","n","e","r","g","y","_","s","o","u","r","c","e">>
operating_year == <<"o","p","e","r","a","t","i","n","g","_","y","e","a","r">>
operating_month == <<"o","p","e","r","a","t","i","n","g","_","m","o","n","t","h">>
planned_retirement_year == <<"p","l","a","n","n","e","d","_","r","e","t","i","r","e","m","e","n","t","_","y","e","a","r">>
retirement_year == <<"r","e","t","i","r","e","m","e","n","t","_","y","e","a","r">>
retirement_month == <<"r","e","t","i","r","e","m","e","n","t","_","m","o","n","t","h">>
effective_year == <<"e","f","f","e","c","t","i","v","e","_","y","e","a","r">>
existing_nameplate == <<"e","x","i","s","t","i","n","g","_","n","a","m","e","p","l","a","t","e">>
existing_energy_source_1 == <<"e","x","i","s","t","i","n","g","_","e","n","e","r","g","y","_","s","o","u","r","c","e","_","1">>
existing_status == <<"e","x","i","s","t","i","n","g","_","s","t","a","t","u","s">>

(***************************************************************************)
(* energy_source_mapping and Series.replace(energy_source_mapping)         *)
(***************************************************************************)
energy_source_mapping ==
    [c \in {"NG", "OG", "GAS"} |-> "natural gas"] @@
    [c \in {"BIT", "SUB", "LIG", "WC", "SGC", "RC", "COL"} |-> "coal"] @@
    [c \in {"NUC"} |-> "nuclear"] @@
    [c \in {"WAT"} |-> "hydro"] @@
    [c \in {"WND"} |-> "wind"] @@
    [c \in {"RFO", "DFO", "PC", "KER", "JF", "WO", "SGP", "PG", "PET"} |-> "oil"] @@
    [c \in {"GEO", "WH", "OTH", "UNK", "OO", "WOC", "MF"} |-> "other"] @@
    [c \in {"MSW", "WDS", "LFG", "OBL", "AB", "TDF", "OBS", "OBG", "REF"} |-> "by-products"] @@
    [c \in {"SUN"} |-> "solar"] @@
    [c \in {"MWH"} |-> "storage"]

\* Series.replace(dict) on one cell: a value equal to a key becomes the
\* key's value, every other value (unknown code, NaN, number) is kept.
replace_strict(cell) ==
    IF cell.k = "str" /\ cell.s \in DOMAIN energy_source_mapping
    THEN StrCell(energy_source_mapping[cell.s])
    ELSE NaN

replace_mapping(cell) ==
    IF cell.k = "str" /\ cell.s \in DOMAIN energy_source_mapping
    THEN StrCell(energy_source_mapping[cell.s])
    ELSE cell

(***************************************************************************)
(* str methods on labels                                                   *)
(***************************************************************************)
LowerOf ==
    [c \in {"A","B","C","D","E","F","G","H","I","J","K","L","M",
            "N","O","P","Q","R","S","T","U","V","W","X","Y","Z"} |->
        CASE c = "A" -> "a" [] c = "B" -> "b" [] c = "C" -> "c" [] c = "D" -> "d"
          [] c = "E" -> "e" [] c = "F" -> "f" [] c = "G" -> "g" [] c = "H" -> "h"
          [] c = "I" -> "i" [] c = "J" -> "j" [] c = "K" -> "k" [] c = "L" -> "l"
          [] c = "M" -> "m" [] c = "N" -> "n" [] c = "O" -> "o" [] c = "P" -> "p"
          [] c = "Q" -> "q" [] c = "R" -> "r" [] c = "S" -> "s" [] c = "T" -> "t"
          [] c = "U" -> "u" [] c = "V" -> "v" [] c = "W" -> "w" [] c = "X" -> "x"
          [] c = "Y" -> "y" [] c = "Z" -> "z"]

\* str.lower()
lower(l) == [i \in DOMAIN l |-> IF l[i] \in DOMAIN LowerOf THEN LowerOf[l[i]] ELSE l[i]]

\* str.replace(old, new) for a one-character old and a one-character new
replace_char(l, old, new) == [i \in DOMAIN l |-> IF l[i] = old THEN new ELSE l[i]]

\* str.replace(old, '') for a one-character old
remove_char(l, old) == SelectSeq(l, LAMBDA c : c # old)

\* str.split('_(')[0]: the text before the first "_(", the whole text if none
split_first(l) ==
    LET hits == {i \in 1..(Len(l) - 1) : l[i] = "_" /\ l[i + 1] = "("}
    IN  IF hits = {} THEN l
        ELSE SubSeq(l, 1, (CHOOSE i \in hits : \A j \in hits : i <= j) - 1)

\* c.lower().replace(' ', '_').replace('?', '').replace('/', '_').split('_(')[0]
normalize_full(l) ==
    split_first(replace_char(remove_char(replace_char(lower(l), " ", "_"), "?"), "/", "_"))

(***************************************************************************)
(* The column normalisation each pipeline inlines                          *)
(***************************************************************************)
\* parse_generators: c.lower() if year == 2010 else the full chain
normalize_generators(c, year) == IF year = 2010 THEN lower(c) ELSE normalize_full(c)

\* parse_proposed: the full chain, whatever the year
normalize_proposed(c, year) == normalize_full(c)

\* parse_retired: the full chain, whatever the year
normalize_retired(c, year) == normalize_full(c)

(***************************************************************************)
(* DataFrame operations                                                    *)
(***************************************************************************)
Raise(e) == [ok |-> FALSE, error |-> e, df |-> [columns |-> <<>>, index |-> <<>>, data |-> <<>>]]
Return(df) == [ok |-> TRUE, error |-> "", df |-> df]

Positions(df, label) == {i \in DOMAIN df.columns : df.columns[i] = label}

\* df[label] / df.label selects one Series exactly when one column carries
\* the label.  No label is missing => KeyError / AttributeError.  The sheets
\* of this model never carry one label twice after the code's renames; a
\* frame that would is treated as a failed selection.
Has(df, label) == Cardinality(Positions(df, label)) = 1
HasAll(df, labels) == \A j \in DOMAIN labels : Has(df, labels[j])

Loc(df, label) == CHOOSE i \in Positions(df, label) : TRUE

Series(df, label) == [r \in DOMAIN df.data |-> df.data[r][Loc(df, label)]]

\* DataFrame.rename(columns=mapper): mapper is the dict, as its items in
\* insertion order.  Every label is looked up once in the whole dict.
rename_sequential(cols, mapper) ==
    LET RECURSIVE step(_, _)
        step(cs, k) ==
            IF k > Len(mapper) THEN cs
            ELSE step([i \in DOMAIN cs |-> IF cs[i] = mapper[k][1] THEN mapper[k][2] ELSE cs[i]],
                      k + 1)
    IN  step(cols, 1)

rename(cols, mapper) ==
    [i \in DOMAIN cols |->
        IF \E k \in DOMAIN mapper : mapper[k][1] = cols[i]
        THEN mapper[CHOOSE k \in DOMAIN mapper : mapper[k][1] = cols[i]][2]
        ELSE cols[i]]

WithColumns(df, cols) == [df EXCEPT !.columns = cols]

\* df[[labels]]
Project(df, labels) ==
    [df EXCEPT !.columns = labels,
               !.data = [r \in DOMAIN df.data |->
                            [j \in DOMAIN labels |-> df.data[r][Loc(df, labels[j])]]]]

\* df[label] = series: overwrite the column, or append it when it is new
SetColumn(df, label, series) ==
    IF Positions(df, label) # {}
    THEN [df EXCEPT !.data = [r \in DOMAIN df.data |->
                                 [j \in DOMAIN df.columns |->
                                     IF df.columns[j] = label THEN series[r] ELSE df.data[r][j]]]]
    ELSE [df EXCEPT !.columns = Append(df.columns, label),
                    !.data = [r \in DOMAIN df.data |-> Append(df.data[r], series[r])]]

\* df[label] = scalar
SetScalar(df, label, cell) == SetColumn(df, label, [r \in DOMAIN df.data |-> cell])

\* The positions of the rows a boolean mask keeps, in order
RECURSIVE Kept(_, _)
Kept(mask, n) ==
    IF n = 0 THEN <<>>
    ELSE IF mask[n] THEN Append(Kept(mask, n - 1), n) ELSE Kept(mask, n - 1)

\* df[mask]: rows keep their index labels
Filter(df, mask) ==
    LET kept == Kept(mask, Len(df.data))
    IN  [df EXCEPT !.index = [j \in DOMAIN kept |-> df.index[kept[j]]],
                   !.data = [j \in DOMAIN kept |-> df.data[kept[j]]]]

\* Series.isin(values) on one cell
isin(cell, values) == cell.k = "str" /\ cell.s \in values

\* Series.replace(' ', np.nan) on one cell
replace_blank(cell) == IF cell = Blank THEN NaN ELSE cell

\* Series.astype(float): numbers and NaN convert, text does not
CanFloat(cell) == cell.k \in {"int", "float", "nan"}
astype_float(cell) == IF cell.k = "int" THEN FloatCell(cell.n, 1) ELSE cell

\* Series.astype('str') on one cell
astype_str(cell) ==
    CASE cell.k = "int" -> ToString(cell.n)
      [] cell.k = "str" -> cell.s
      [] OTHER -> "nan"

\* Series / 1000: numbers divide, NaN stays NaN, text raises TypeError
CanDivide(cell) == cell.k \in {"int", "float", "nan"}
divide_1000(cell) == IF IsNumber(cell) THEN FloatCell(cell.n, cell.d * 1000) ELSE cell

\* numpy round of n/d (d > 0): to the nearest integer, a tie to the even one
round_half_even(n, d) ==
    LET q == n \div d
        r == n % d
    IN  IF 2 * r < d THEN q
        ELSE IF 2 * r > d THEN q + 1
        ELSE IF q % 2 = 0 THEN q ELSE q + 1

\* Series.round() on one cell
round(cell) == IF IsNumber(cell) THEN FloatCell(round_half_even(cell.n, cell.d), 1) ELSE cell

\* Series.astype(int): a whole number converts; NaN and text raise
CanInt(cell) == IsNumber(cell)
astype_int(cell) == IntCell(cell.n \div cell.d)

(***************************************************************************)
(* parse_generators                                                        *)
(***************************************************************************)
\* columns, without the generator_uuid that set_index moves into the index
columns ==
    <<utility_name, plant_name, state, county, status, sector, nameplate_capacity,
      energy_source_1, operating_year, planned_retirement_year>>

rename_batch == <<<<nameplate, nameplate_capacity>>, <<sector_name, sector>>, <<sector, sector_code>>>>

\* df.columns after the first rename
generators_normalized(year, df) == [i \in DOMAIN df.columns |-> normalize_generators(df.columns[i], year)]

\* df.columns after the second rename
generators_renamed(year, df) == rename(generators_normalized(year, df), rename_batch)

\* df.plant_code.astype('str') + '_' + df.generator_id, one row
uuid_no_separator(plant, generator) ==
    IF generator.k = "str" THEN StrCell(astype_str(plant) \o generator.s) ELSE NaN

make_uuid(plant, generator) ==
    IF generator.k = "str" THEN StrCell(astype_str(plant) \o "_" \o generator.s) ELSE NaN

\* df.index.is_unique
unchecked_unique(index) == TRUE

is_unique(index) == \A i, j \in DOMAIN index : index[i] = index[j] => i = j

\* (df.status == 'OP') & df.sector.isin([...]), one row
generators_mask_no_status(status_cell, sector_cell) ==
    isin(sector_cell, {"Electric Utility", "IPP Non-CHP", "IPP"})

generators_mask(status_cell, sector_cell) ==
    status_cell = StrCell("OP") /\ isin(sector_cell, {"Electric Utility", "IPP Non-CHP", "IPP"})

parse_generators(year, raw) ==
    LET df1 == WithColumns(raw, generators_renamed(year, raw))
    IN  IF ~Has(df1, plant_code) \/ ~Has(df1, generator_id) THEN Raise("AttributeError")
        ELSE IF ~HasAll(df1, columns) THEN Raise("KeyError")
        ELSE
        LET uuid == [r \in DOMAIN df1.data |->
                        make_uuid(Series(df1, plant_code)[r], Series(df1, generator_id)[r])]
            df2 == [Project(df1, columns) EXCEPT !.index = uuid]
        IN  IF ~is_unique(df2.index) THEN Raise("AssertionError")
            ELSE
            LET retire == [r \in DOMAIN df2.data |->
                              replace_blank(Series(df2, planned_retirement_year)[r])]
            IN  IF \E r \in DOMAIN retire : ~CanFloat(retire[r]) THEN Raise("ValueError")
                ELSE
                LET df3 == SetColumn(df2, planned_retirement_year,
                                     [r \in DOMAIN retire |-> astype_float(retire[r])])
                    df4 == SetColumn(df3, energy_source,
                                     [r \in DOMAIN df3.data |->
                                         replace_mapping(Series(df3, energy_source_1)[r])])
                    mask == [r \in DOMAIN df4.data |->
                                generators_mask(Series(df4, status)[r], Series(df4, sector)[r])]
                IN  Return(Filter(df4, mask))

(***************************************************************************)
(* parse_proposed                                                          *)
(***************************************************************************)
proposed_columns ==
    <<utility_name, plant_name, plant_code, state, county, nameplate_capacity, status,
      energy_source_1, effective_year, sector>>

proposed_normalized(year, df) == [i \in DOMAIN df.columns |-> normalize_proposed(df.columns[i], year)]

proposed_renamed(year, df) == rename(proposed_normalized(year, df), rename_batch)

\* df.sector.isin([...]) & df.status.isin([...]), one row
proposed_mask_any_status(status_cell, sector_cell) ==
    isin(sector_cell, {"IPP Non-CHP", "Electric Utility"})

proposed_mask(status_cell, sector_cell) ==
    isin(sector_cell, {"IPP Non-CHP", "Electric Utility"}) /\ isin(status_cell, {"TS", "V", "U", "T"})

parse_proposed(year, raw) ==
    LET df1 == WithColumns(raw, proposed_renamed(year, raw))
    IN  IF ~HasAll(df1, proposed_columns) THEN Raise("KeyError")
        ELSE
        LET df2 == Project(df1, proposed_columns)
            mask == [r \in DOMAIN df2.data |->
                        proposed_mask(Series(df2, status)[r], Series(df2, sector)[r])]
            df3 == Filter(df2, mask)
            df4 == SetColumn(df3, energy_source,
                             [r \in DOMAIN df3.data |->
                                 replace_mapping(Series(df3, energy_source_1)[r])])
            effective == [r \in DOMAIN df4.data |-> replace_blank(Series(df4, effective_year)[r])]
        IN  IF \E r \in DOMAIN effective : ~CanFloat(effective[r]) THEN Raise("ValueError")
            ELSE Return(SetColumn(df4, effective_year,
                                  [r \in DOMAIN effective |-> astype_float(effective[r])]))

(***************************************************************************)
(* parse_retired                                                           *)
(***************************************************************************)
retired_columns ==
    <<utility_name, plant_name, plant_code, state, county, nameplate_capacity, energy_source,
      operating_year, retirement_year>>

retired_batch == <<<<sector_name, sector>>, <<sector, sector_code>>>>

\* The rename of the year <= 2000 branch
pre2001_batch ==
    <<<<operating_month, operating_year>>, <<operating_year, operating_month>>,
      <<retirement_month, retirement_year>>, <<retirement_year, retirement_month>>,
      <<existing_nameplate, nameplate_capacity>>,
      <<existing_energy_source_1, energy_source_1>>,
      <<existing_status, status>>>>

coerced == <<operating_year, retirement_year, nameplate_capacity>>

retired_normalized(year, df) == [i \in DOMAIN df.columns |-> normalize_retired(df.columns[i], year)]

\* The frame after the renames: for year <= 2000, df["sector"] is set first
\* and the labels are then swapped and renamed
retired_relabelled(year, raw) ==
    LET df1 == WithColumns(raw, rename(retired_normalized(year, raw), retired_batch))
    IN  IF year <= 2000
        THEN LET df2 == SetScalar(df1, sector, StrCell("Electric Utility"))
             IN  WithColumns(df2, rename(df2.columns, pre2001_batch))
        ELSE df1

retired_renamed(year, raw) == retired_relabelled(year, raw).columns

\* df.nameplate_capacity = df.nameplate_capacity / 1000 for year <= 2000
keep_kilowatts(year, cell) == cell

rescale(year, cell) == IF year <= 2000 THEN divide_1000(cell) ELSE cell

\* df.sector.isin([...]) & (df.status == "RE"), one row
retired_mask(status_cell, sector_cell) ==
    isin(sector_cell, {"IPP Non-CHP", "Electric Utility"}) /\ status_cell = StrCell("RE")

\* The final loop: df[col].replace(' ', np.nan).round().astype(int)
coerce(df) ==
    LET RECURSIVE step(_, _)
        step(d, k) ==
            IF k > Len(coerced) THEN Return(d)
            ELSE LET col == [r \in DOMAIN d.data |-> round(replace_blank(Series(d, coerced[k])[r]))]
                 IN  IF \E r \in DOMAIN col : ~CanInt(col[r]) THEN Raise("ValueError")
                     ELSE step(SetColumn(d, coerced[k], [r \in DOMAIN col |-> astype_int(col[r])]),
                               k + 1)
    IN  step(df, 1)

parse_retired(year, raw) ==
    LET df1 == retired_relabelled(year, raw)
        df2 == IF year <= 2000
               THEN SetScalar(SetScalar(SetScalar(SetScalar(df1, utility_name, StrCell("")),
                                                  plant_name, StrCell("")),
                                        state, StrCell("")),
                              county, StrCell(""))
               ELSE df1
    IN  IF year <= 2000 /\ ~Has(df2, nameplate_capacity) THEN Raise("AttributeError")
        ELSE IF year <= 2000 /\ \E r \in DOMAIN df2.data :
                                    ~CanDivide(Series(df2, nameplate_capacity)[r])
        THEN Raise("TypeError")
        ELSE IF ~Has(df2, energy_source_1) THEN Raise("AttributeError")
        ELSE
        LET df3 == IF year <= 2000
                   THEN SetColumn(df2, nameplate_capacity,
                                  [r \in DOMAIN df2.data |->
                                      rescale(year, Series(df2, nameplate_capacity)[r])])
                   ELSE df2
            df4 == SetColumn(df3, energy_source,
                             [r \in DOMAIN df3.data |->
                                 replace_mapping(Series(df3, energy_source_1)[r])])
        IN  IF ~Has(df4, sector) \/ ~Has(df4, status) THEN Raise("AttributeError")
            ELSE IF ~HasAll(df4, retired_columns) THEN Raise("KeyError")
            ELSE
            LET mask == [r \in DOMAIN df4.data |->
                            retired_mask(Series(df4, status)[r], Series(df4, sector)[r])]
            IN  coerce(Project(Filter(df4, mask), retired_columns))

(***************************************************************************)
(* The sheets pd.read_excel hands to the pipelines                         *)
(***************************************************************************)
MaxRows == 2

Years == {2000, 2010, 2018}

\* Raw header labels in the title-case style ("Sector Name") and in the
\* upper-case style ("SECTOR_NAME") of the yearly files.
CommonTitled ==
    <<<<"U","t","i","l","i","t","y"," ","N","a","m","e">>,
      <<"P","l","a","n","t"," ","C","o","d","e">>,
      <<"P","l","a","n","t"," ","N","a","m","e">>,
      <<"S","t","a","t","e">>,
      <<"C","o","u","n","t","y">>,
      <<"G","e","n","e","r","a","t","o","r"," ","I","D">>,
      <<"S","t","a","t","u","s">>,
      <<"S","e","c","t","o","r"," ","N","a","m","e">>,
      <<"S","e","c","t","o","r">>,
      <<"N","a","m","e","p","l","a","t","e"," ","C","a","p","a","c","i","t","y"," ","(","M","W",")">>,
      <<"E","n","e","r","g","y"," ","S","o","u","r","c","e"," ","1">>>>

CommonUpper ==
    <<<<"U","T","I","L","I","T","Y","_","N","A","M","E">>,
      <<"P","L","A","N","T","_","C","O","D","E">>,
      <<"P","L","A","N","T","_","N","A","M","E">>,
      <<"S","T","A","T","E">>,
      <<"C","O","U","N","T","Y">>,
      <<"G","E","N","E","R","A","T","O","R","_","I","D">>,
      <<"S","T","A","T","U","S">>,
      <<"S","E","C","T","O","R","_","N","A","M","E">>,
      <<"S","E","C","T","O","R">>,
      <<"N","A","M","E","P","L","A","T","E">>,
      <<"E","N","E","R","G","Y","_","S","O","U","R","C","E","_","1">>>>

OperableTitled ==
    CommonTitled \o
    <<<<"O","p","e","r","a","t","i","n","g"," ","Y","e","a","r">>,
      <<"P","l","a","n","n","e","d"," ","R","e","t","i","r","e","m","e","n","t"," ","Y","e","a","r">>>>

OperableUpper ==
    CommonUpper \o
    <<<<"O","P","E","R","A","T","I","N","G","_","Y","E","A","R">>,
      <<"P","L","A","N","N","E","D","_","R","E","T","I","R","E","M","E","N","T","_","Y","E","A","R">>>>

\* Column positions shared by the title-case and upper-case sheets
RawPlantCode == CHOOSE i \in DOMAIN CommonTitled : CommonTitled[i] = <<"P","l","a","n","t"," ","C","o","d","e">>
RawGeneratorId == CHOOSE i \in DOMAIN CommonTitled : CommonTitled[i] = <<"G","e","n","e","r","a","t","o","r"," ","I","D">>
RawStatus == CHOOSE i \in DOMAIN CommonTitled : CommonTitled[i] = <<"S","t","a","t","u","s">>
RawSectorName == CHOOSE i \in DOMAIN CommonTitled : CommonTitled[i] = <<"S","e","c","t","o","r"," ","N","a","m","e">>
RawSector == CHOOSE i \in DOMAIN CommonTitled : CommonTitled[i] = <<"S","e","c","t","o","r">>
RawNameplate == CHOOSE i \in DOMAIN CommonTitled : CommonTitled[i] = <<"N","a","m","e","p","l","a","t","e"," ","C","a","p","a","c","i","t","y"," ","(","M","W",")">>
RawEnergySource1 == CHOOSE i \in DOMAIN CommonTitled : CommonTitled[i] = <<"E","n","e","r","g","y"," ","S","o","u","r","c","e"," ","1">>

SeqsUpTo(S, n) == UNION {[1..k -> S] : k \in 0..n}

Frame(header, rows) ==
    [columns |-> header, index |-> [r \in DOMAIN rows |-> IntCell(r - 1)], data |-> rows]

PlantCodes == {12, 123}
GeneratorIds == {"A", "B"}
FuelCodes == DOMAIN energy_source_mapping \cup {"XYZ", "coal", "ng"}

OperableRow(plant, generator, stat, sect, fuel, retire) ==
    <<StrCell("Acme Power"), IntCell(plant), StrCell("Plant One"), StrCell("CA"), StrCell("Kern"),
      StrCell(generator), StrCell(stat), StrCell(sect), IntCell(1), IntCell(250),
      fuel, IntCell(1999), retire>>

\* Rows that vary the key, the status and the sector
OperableKeyRows ==
    {OperableRow(p, g, st, "Electric Utility", StrCell("NG"), Blank) :
        p \in PlantCodes, g \in GeneratorIds, st \in {"OP", "RE"}}

OperableFilterRows ==
    {OperableRow(p, "A", x[1], x[2], StrCell("BIT"), IntCell(2030)) :
        p \in PlantCodes,
        x \in {<<"OP", "Electric Utility">>, <<"OP", "IPP Non-CHP">>, <<"OP", "IPP">>,
               <<"OP", "Industrial Non-CHP">>, <<"SB", "IPP">>}}

\* One-row sheets, one per fuel code, known or not, and one without a code
OperableFuelRows ==
    {OperableRow(123, "A", "OP", "IPP", f, NaN) : f \in {StrCell(c) : c \in FuelCodes} \cup {NaN}}

OperableSheets ==
    {Frame(h, rows) : h \in {OperableTitled, OperableUpper},
                      rows \in SeqsUpTo(OperableKeyRows, MaxRows)
                               \cup SeqsUpTo(OperableFilterRows, MaxRows)
                               \cup {<<r>> : r \in OperableFuelRows}}

ProposedTitled ==
    CommonTitled \o <<<<"E","f","f","e","c","t","i","v","e"," ","Y","e","a","r">>>>

ProposedUpper ==
    CommonUpper \o <<<<"E","F","F","E","C","T","I","V","E","_","Y","E","A","R">>>>

ProposedRow(stat, sect, fuel, effective) ==
    <<StrCell("Acme Power"), IntCell(123), StrCell("Plant One"), StrCell("CA"), StrCell("Kern"),
      StrCell("A"), StrCell(stat), StrCell(sect), IntCell(1), IntCell(250), fuel, effective>>

ProposedFilterRows ==
    {ProposedRow(x[1], x[2], StrCell("SUN"), IntCell(2022)) :
        x \in {<<"TS", "Electric Utility">>, <<"V", "Electric Utility">>,
               <<"U", "Electric Utility">>, <<"T", "Electric Utility">>,
               <<"P", "Electric Utility">>, <<"TS", "IPP Non-CHP">>, <<"TS", "IPP">>}}

ProposedYearRows ==
    {ProposedRow(st, "IPP Non-CHP", StrCell("WND"), e) :
        st \in {"V", "L"}, e \in {Blank, NaN, IntCell(2022)}}

ProposedFuelRows ==
    {ProposedRow("U", "Electric Utility", f, IntCell(2022)) :
        f \in {StrCell(c) : c \in FuelCodes} \cup {NaN}}

ProposedSheets ==
    {Frame(h, rows) : h \in {ProposedTitled, ProposedUpper},
                      rows \in SeqsUpTo(ProposedFilterRows, MaxRows)
                               \cup SeqsUpTo(ProposedYearRows, MaxRows)
                               \cup {<<r>> : r \in ProposedFuelRows}}

RetiredTitled ==
    CommonTitled \o
    <<<<"O","p","e","r","a","t","i","n","g"," ","Y","e","a","r">>,
      <<"R","e","t","i","r","e","m","e","n","t"," ","Y","e","a","r">>>>

RetiredUpper ==
    CommonUpper \o
    <<<<"O","P","E","R","A","T","I","N","G","_","Y","E","A","R">>,
      <<"R","E","T","I","R","E","M","E","N","T","_","Y","E","A","R">>>>

\* The "Existing Generators" sheet of the pre-2001 files
RetiredPre2001 ==
    <<<<"P","L","A","N","T","_","C","O","D","E">>,
      <<"G","E","N","E","R","A","T","O","R","_","I","D">>,
      <<"E","X","I","S","T","I","N","G","_","N","A","M","E","P","L","A","T","E">>,
      <<"E","X","I","S","T","I","N","G","_","E","N","E","R","G","Y","_","S","O","U","R","C","E","_","1">>,
      <<"E","X","I","S","T","I","N","G","_","S","T","A","T","U","S">>,
      <<"O","P","E","R","A","T","I","N","G","_","M","O","N","T","H">>,
      <<"O","P","E","R","A","T","I","N","G","_","Y","E","A","R">>,
      <<"R","E","T","I","R","E","M","E","N","T","_","M","O","N","T","H">>,
      <<"R","E","T","I","R","E","M","E","N","T","_","Y","E","A","R">>>>

RawOperatingYear == CHOOSE i \in DOMAIN RetiredTitled : RetiredTitled[i] = <<"O","p","e","r","a","t","i","n","g"," ","Y","e","a","r">>
RawRetirementYear == CHOOSE i \in DOMAIN RetiredTitled : RetiredTitled[i] = <<"R","e","t","i","r","e","m","e","n","t"," ","Y","e","a","r">>

\* Column positions of the pre-2001 sheet
OldNameplate == CHOOSE i \in DOMAIN RetiredPre2001 : RetiredPre2001[i] = <<"E","X","I","S","T","I","N","G","_","N","A","M","E","P","L","A","T","E">>
OldEnergySource1 == CHOOSE i \in DOMAIN RetiredPre2001 : RetiredPre2001[i] = <<"E","X","I","S","T","I","N","G","_","E","N","E","R","G","Y","_","S","O","U","R","C","E","_","1">>
OldStatus == CHOOSE i \in DOMAIN RetiredPre2001 : RetiredPre2001[i] = <<"E","X","I","S","T","I","N","G","_","S","T","A","T","U","S">>
OldOperatingMonth == CHOOSE i \in DOMAIN RetiredPre2001 : RetiredPre2001[i] = <<"O","P","E","R","A","T","I","N","G","_","M","O","N","T","H">>
OldOperatingYear == CHOOSE i \in DOMAIN RetiredPre2001 : RetiredPre2001[i] = <<"O","P","E","R","A","T","I","N","G","_","Y","E","A","R">>
OldRetirementMonth == CHOOSE i \in DOMAIN RetiredPre2001 : RetiredPre2001[i] = <<"R","E","T","I","R","E","M","E","N","T","_","M","O","N","T","H">>
OldRetirementYear == CHOOSE i \in DOMAIN RetiredPre2001 : RetiredPre2001[i] = <<"R","E","T","I","R","E","M","E","N","T","_","Y","E","A","R">>

RetiredRow(stat, sect, capacity, fuel, operating, retirement) ==
    <<StrCell("Acme Power"), IntCell(123), StrCell("Plant One"), StrCell("CA"), StrCell("Kern"),
      StrCell("A"), StrCell(stat), StrCell(sect), IntCell(1), capacity, fuel,
      operating, retirement>>

RetiredFilterRows ==
    {RetiredRow(st, se, IntCell(250), StrCell("LIG"), IntCell(1950), IntCell(2015)) :
        st \in {"RE", "CN"}, se \in {"Electric Utility", "IPP Non-CHP", "IPP"}}

RetiredValueRows ==
    {RetiredRow(st, "IPP Non-CHP", c, StrCell("DFO"), o, IntCell(2015)) :
        st \in {"RE", "CN"}, c \in {IntCell(250), FloatCell(5, 2), FloatCell(7, 2), Blank},
        o \in {IntCell(1950), NaN}}

RetiredFuelRows ==
    {RetiredRow("RE", "Electric Utility", IntCell(250), f, IntCell(1950), IntCell(2015)) :
        f \in {StrCell(c) : c \in FuelCodes} \cup {NaN}}

\* In the pre-2001 sheet the column headed ..._MONTH holds the year and the
\* column headed ..._YEAR the month; the nameplate is in kilowatts.
Pre2001Row(stat, kilowatts, fuel, operating, retirement) ==
    <<IntCell(123), StrCell("A"), kilowatts, fuel, StrCell(stat),
      operating, IntCell(6), retirement, IntCell(12)>>

Pre2001NameplateRows ==
    {Pre2001Row(st, kw, StrCell("COL"), IntCell(1950), IntCell(1999)) :
        st \in {"RE", "OP"},
        kw \in {IntCell(499), IntCell(500), IntCell(1500), IntCell(2501), Blank, NaN}}

Pre2001YearRows ==
    {Pre2001Row(st, IntCell(12000), StrCell("PET"), o, r) :
        st \in {"RE", "OP"}, o \in {IntCell(1950), Blank, NaN}, r \in {IntCell(1999), Blank}}

Pre2001FuelRows ==
    {Pre2001Row("RE", IntCell(12000), f, IntCell(1950), IntCell(1999)) :
        f \in {StrCell(c) : c \in FuelCodes} \cup {NaN}}

RetiredSheets ==
    {Frame(h, rows) : h \in {RetiredTitled, RetiredUpper},
                      rows \in SeqsUpTo(RetiredFilterRows, MaxRows)
                               \cup SeqsUpTo(RetiredValueRows, MaxRows)
                               \cup {<<r>> : r \in RetiredFuelRows}}
    \cup
    {Frame(RetiredPre2001, rows) :
        rows \in SeqsUpTo(Pre2001NameplateRows, MaxRows)
                 \cup SeqsUpTo(Pre2001YearRows, MaxRows)
                 \cup {<<r>> : r \in Pre2001FuelRows}}

(***************************************************************************)
(* The state machine: the caller names a pipeline and a year, the pipeline *)
(* reads its sheet and returns a table or raises                           *)
(***************************************************************************)
NoFrame == [columns |-> <<>>, index |-> <<>>, data |-> <<>>]

Pending == Raise("pending")

Init ==
    /\ call \in [fn : {"parse_generators", "parse_proposed", "parse_retired"}, year : Years]
    /\ sheet = NoFrame
    /\ normalized = <<>>
    /\ renamed = <<>>
    /\ result = Pending

ParseGenerators ==
    /\ call.fn = "parse_generators"
    /\ result = Pending
    /\ \E raw \in OperableSheets :
        /\ sheet' = raw
        /\ normalized' = generators_normalized(call.year, raw)
        /\ renamed' = generators_renamed(call.year, raw)
        /\ result' = parse_generators(call.year, raw)
    /\ UNCHANGED call

ParseProposed ==
    /\ call.fn = "parse_proposed"
    /\ result = Pending
    /\ \E raw \in ProposedSheets :
        /\ sheet' = raw
        /\ normalized' = proposed_normalized(call.year, raw)
        /\ renamed' = proposed_renamed(call.year, raw)
        /\ result' = parse_proposed(call.year, raw)
    /\ UNCHANGED call

ParseRetired ==
    /\ call.fn = "parse_retired"
    /\ result = Pending
    /\ \E raw \in RetiredSheets :
        /\ sheet' = raw
        /\ normalized' = retired_normalized(call.year, raw)
        /\ renamed' = retired_renamed(call.year, raw)
        /\ result' = parse_retired(call.year, raw)
    /\ UNCHANGED call

Next == ParseGenerators \/ ParseProposed \/ ParseRetired

Spec == Init /\ [][Next]_vars

(***************************************************************************)
(* Reading a finished call                                                 *)
(***************************************************************************)
Called(fn) == call.fn = fn /\ result # Pending
Returned(fn) == Called(fn) /\ result.ok
Raised(fn) == Called(fn) /\ ~result.ok

InputRows == DOMAIN sheet.data
OutputRows == DOMAIN result.df.data
Out(label, j) == Series(result.df, label)[j]

IsPre2001Sheet == sheet.columns = RetiredPre2001
IsTitledSheet ==
    /\ Len(sheet.columns) >= Len(CommonTitled)
    /\ SubSeq(sheet.columns, 1, Len(CommonTitled)) = CommonTitled

\* string(plant_code) + "_" + generator_id of input row r
KeyOf(r) == ToString(sheet.data[r][RawPlantCode].n) \o "_" \o sheet.data[r][RawGeneratorId].s

\* The input row an output row comes from: by its key in the operating
\* table, by its position (the RangeIndex label) in the other two
InputRowOf(j) ==
    CHOOSE r \in InputRows :
        IF call.fn = "parse_generators" THEN result.df.index[j] = StrCell(KeyOf(r))
        ELSE result.df.index[j] = IntCell(r - 1)

HasInputRow(j) ==
    \E r \in InputRows :
        IF call.fn = "parse_generators" THEN result.df.index[j] = StrCell(KeyOf(r))
        ELSE result.df.index[j] = IntCell(r - 1)

\* The raw status, sector and fuel code of input row r
RawStatusOf(r) == sheet.data[r][IF IsPre2001Sheet THEN OldStatus ELSE RawStatus]
RawSectorOf(r) == sheet.data[r][RawSectorName]
RawFuelOf(r) == sheet.data[r][IF IsPre2001Sheet THEN OldEnergySource1 ELSE RawEnergySource1]

OperatingSectors == {"Electric Utility", "IPP Non-CHP", "IPP"}

PassesOperating(r) == RawStatusOf(r) = StrCell("OP") /\ RawSectorOf(r).s \in OperatingSectors

(***************************************************************************)
(* C1: every row parse_generators returns has status "OP" and a sector     *)
(* among Electric Utility, IPP Non-CHP and IPP, and every input row with   *)
(* both is in the returned table.                                          *)
(***************************************************************************)
C1_OperatingFilter ==
    Returned("parse_generators") =>
        /\ \A j \in OutputRows :
            /\ Out(status, j) = StrCell("OP")
            /\ Out(sector, j).k = "str" /\ Out(sector, j).s \in OperatingSectors
        /\ \A r \in InputRows :
            PassesOperating(r) <=> \E j \in OutputRows : result.df.index[j] = StrCell(KeyOf(r))

C1_Witness ==
    /\ Returned("parse_generators")
    /\ Len(sheet.data) = 2 /\ Len(result.df.data) = 1
    /\ PassesOperating(1) /\ RawStatusOf(2) = StrCell("OP") /\ ~PassesOperating(2)

\* The (plant_code, generator_id) pairs a uuid can be split back into
SplitBack(u) == {x \in PlantCodes \X GeneratorIds : ToString(x[1]) \o "_" \o x[2] = u}

(***************************************************************************)
(* C2: the generator_uuid values parse_generators returns are pairwise     *)
(* distinct, and each is string(plant_code) + "_" + generator_id of an     *)
(* input row: it splits back into exactly one (plant_code, generator_id)   *)
(* pair, and that pair is in the input.                                    *)
(***************************************************************************)
C2_UniqueUuid ==
    Returned("parse_generators") =>
        /\ \A i, j \in OutputRows : result.df.index[i] = result.df.index[j] => i = j
        /\ \A j \in OutputRows :
            /\ result.df.index[j].k = "str"
            /\ Cardinality(SplitBack(result.df.index[j].s)) = 1
            /\ \A x \in SplitBack(result.df.index[j].s) :
                \E r \in InputRows : /\ sheet.data[r][RawPlantCode] = IntCell(x[1])
                                     /\ sheet.data[r][RawGeneratorId] = StrCell(x[2])

C2_Witness ==
    /\ Returned("parse_generators")
    /\ Len(sheet.data) = 2
    /\ sheet.data[1][RawPlantCode] = IntCell(123) /\ sheet.data[2][RawPlantCode] = IntCell(123)
    /\ result.df.index = <<StrCell("123_A"), StrCell("123_B")>>

Collision == \E r1, r2 \in InputRows : r1 # r2 /\ KeyOf(r1) = KeyOf(r2)

(***************************************************************************)
(* C3: when two rows of the input sheet, filtered out or not, have the     *)
(* same generator_uuid, parse_generators raises and returns no table.      *)
(***************************************************************************)
C3_CollisionAborts ==
    (Called("parse_generators") /\ Collision) => (~result.ok /\ result.df = NoFrame)

C3_Witness ==
    /\ Called("parse_generators")
    /\ result.error = "AssertionError"
    /\ Len(sheet.data) = 2
    /\ KeyOf(1) = KeyOf(2)
    /\ PassesOperating(1) /\ ~PassesOperating(2)

PassesProposed(r) ==
    /\ RawSectorOf(r).s \in {"IPP Non-CHP", "Electric Utility"}
    /\ RawStatusOf(r).s \in {"TS", "V", "U", "T"}

(***************************************************************************)
(* C4: parse_proposed returns exactly the input rows whose sector is       *)
(* IPP Non-CHP or Electric Utility and whose status is TS, V, U or T.      *)
(***************************************************************************)
C4_ProposedFilter ==
    Returned("parse_proposed") =>
        /\ \A j \in OutputRows : HasInputRow(j) /\ PassesProposed(InputRowOf(j))
        /\ \A r \in InputRows :
            PassesProposed(r) => \E j \in OutputRows : result.df.index[j] = IntCell(r - 1)
        /\ \A i, j \in OutputRows : result.df.index[i] = result.df.index[j] => i = j
        /\ \A j \in OutputRows :
            /\ Out(status, j) = RawStatusOf(InputRowOf(j))
            /\ Out(sector, j) = RawSectorOf(InputRowOf(j))

C4_Witness ==
    /\ Returned("parse_proposed")
    /\ Len(sheet.data) = 2
    /\ RawStatusOf(1) = StrCell("P") /\ RawSectorOf(1) = StrCell("Electric Utility")
    /\ RawStatusOf(2) = StrCell("V")
    /\ result.df.index = <<IntCell(1)>>

Documented ==
    [c \in {"BIT", "RC"} |-> "coal"] @@ [c \in {"MWH"} |-> "storage"] @@
    [c \in {"NG"} |-> "natural gas"] @@ [c \in {"UNK"} |-> "other"]

Categories ==
    {"natural gas", "coal", "nuclear", "hydro", "wind", "oil", "other", "by-products",
     "solar", "storage"}

IsKey(cell) == cell.k = "str" /\ cell.s \in DOMAIN energy_source_mapping

\* A one-row sheet of the fuel family whose row passes the pipeline's filter
FuelSheet ==
    /\ Len(sheet.data) = 1
    /\ \/ call.fn = "parse_generators" /\ sheet.data[1] \in OperableFuelRows
          /\ ~(call.year = 2010 /\ IsTitledSheet)
       \/ call.fn = "parse_proposed" /\ sheet.data[1] \in ProposedFuelRows
       \/ call.fn = "parse_retired" /\ call.year > 2000 /\ IsTitledSheet
          /\ sheet.data[1] \in RetiredFuelRows
       \/ call.fn = "parse_retired" /\ call.year <= 2000 /\ sheet.data[1] \in Pre2001FuelRows

(***************************************************************************)
(* C5: in the table each pipeline returns, energy_source is the category   *)
(* energy_source_mapping gives the row's energy_source_1 when that is a    *)
(* key of the table (BIT, RC coal; MWH storage; NG natural gas; UNK        *)
(* other), and the row's energy_source_1 unchanged when it is not a key;   *)
(* a code that is not a key never makes a pipeline raise.                  *)
(***************************************************************************)
C5_Classify ==
    /\ (result # Pending /\ result.ok) =>
        \A j \in OutputRows :
            /\ HasInputRow(j)
            /\ LET raw == RawFuelOf(InputRowOf(j))
               IN  /\ IsKey(raw) => /\ Out(energy_source, j).k = "str"
                                    /\ Out(energy_source, j).s = energy_source_mapping[raw.s]
                                    /\ Out(energy_source, j).s \in Categories
                   /\ (raw.k = "str" /\ raw.s \in DOMAIN Documented) =>
                          Out(energy_source, j) = StrCell(Documented[raw.s])
                   /\ ~IsKey(raw) => Out(energy_source, j) = raw
    /\ (result # Pending /\ FuelSheet) => (result.ok /\ Len(result.df.data) = 1)

C5_Witness ==
    /\ result # Pending /\ result.ok /\ call.fn = "parse_retired" /\ call.year = 2000
    /\ Len(result.df.data) = 2
    /\ RawFuelOf(1) = StrCell("COL") /\ Out(energy_source, 1) = StrCell("coal")

C5_WitnessUnknown ==
    /\ Returned("parse_generators")
    /\ Len(result.df.data) = 1
    /\ RawFuelOf(1) = StrCell("XYZ") /\ Out(energy_source, 1) = StrCell("XYZ")

NoDuplicate(labels) == \A i, j \in DOMAIN labels : labels[i] = labels[j] => i = j

(***************************************************************************)
(* C6: for year 2018, parse_generators and parse_proposed relabel          *)
(* "Nameplate Capacity (MW)" as nameplate_capacity, "Sector Name" as       *)
(* sector and "Sector" as sector_code in one simultaneous rename: no two   *)
(* columns end under one label, and the returned sector column holds the   *)
(* "Sector Name" data.                                                     *)
(***************************************************************************)
C6_RenameBatch ==
    ((Called("parse_generators") \/ Called("parse_proposed"))
        /\ call.year = 2018 /\ IsTitledSheet) =>
        /\ renamed[RawNameplate] = nameplate_capacity
        /\ renamed[RawSectorName] = sector
        /\ renamed[RawSector] = sector_code
        /\ NoDuplicate(renamed)
        /\ (call.fn = "parse_proposed" \/ ~Collision) => result.ok
        /\ result.ok =>
            \A j \in OutputRows :
                /\ HasInputRow(j)
                /\ Out(sector, j) = sheet.data[InputRowOf(j)][RawSectorName]
                /\ Out(nameplate_capacity, j) = sheet.data[InputRowOf(j)][RawNameplate]

C6_Witness ==
    /\ Returned("parse_generators") /\ call.year = 2018 /\ IsTitledSheet
    /\ Len(result.df.data) = 2
    /\ Out(sector, 1) = StrCell("IPP Non-CHP")
    /\ sheet.data[1][RawSector] = IntCell(1)

(***************************************************************************)
(* C7: for year 2010 every pipeline only lower-cases the column labels     *)
(* (spaces, "?", "/" and "_(" suffixes stay), so the three pipelines give  *)
(* one raw label the same normalized label.                                *)
(***************************************************************************)
C7_LowercaseOnly2010 ==
    (result # Pending /\ call.year = 2010) =>
        \A i \in DOMAIN sheet.columns : normalized[i] = lower(sheet.columns[i])

\* What holds of the code: only parse_generators has the year 2010 branch
C7_GeneratorsOnly ==
    /\ (Called("parse_generators") /\ call.year = 2010) =>
        \A i \in DOMAIN sheet.columns : normalized[i] = lower(sheet.columns[i])
    /\ ((Called("parse_proposed") \/ Called("parse_retired")) /\ IsTitledSheet) =>
        normalized[RawSectorName] = sector_name

RawNameplateOf(r) == sheet.data[r][IF IsPre2001Sheet THEN OldNameplate ELSE RawNameplate]

Abs(x) == IF x < 0 THEN -x ELSE x

\* whole is a nearest integer of n / d (d > 0)
NearestInteger(whole, n, d) == 2 * Abs(whole * d - n) <= d

(***************************************************************************)
(* C8: for year 2000 every nameplate_capacity parse_retired returns is an  *)
(* integer, the row's raw existing_nameplate divided by 1000 and rounded   *)
(* to the nearest integer; for a year after 2000 it is the raw nameplate   *)
(* rounded to the nearest integer, not divided by 1000.                    *)
(***************************************************************************)
C8_KilowattsToMegawatts ==
    Returned("parse_retired") =>
        \A j \in OutputRows :
            /\ HasInputRow(j)
            /\ Out(nameplate_capacity, j).k = "int"
            /\ LET raw == RawNameplateOf(InputRowOf(j))
               IN  /\ IsNumber(raw)
                   /\ call.year <= 2000 =>
                        NearestInteger(Out(nameplate_capacity, j).n, raw.n, raw.d * 1000)
                   /\ call.year > 2000 =>
                        NearestInteger(Out(nameplate_capacity, j).n, raw.n, raw.d)

C8_Witness ==
    /\ Returned("parse_retired") /\ call.year = 2000
    /\ Len(result.df.data) = 2
    /\ RawNameplateOf(1) = IntCell(1500) /\ Out(nameplate_capacity, 1) = IntCell(2)
    /\ RawNameplateOf(2) = IntCell(499) /\ Out(nameplate_capacity, 2) = IntCell(0)

\* The sheet of the call's year: the pre-2001 sheet for year <= 2000, the
\* title-case "Retired and Canceled" sheet after
SheetOfYear == IF call.year <= 2000 THEN IsPre2001Sheet ELSE IsTitledSheet

Retained(r) ==
    /\ RawStatusOf(r) = StrCell("RE")
    /\ call.year > 2000 => RawSectorOf(r).s \in {"IPP Non-CHP", "Electric Utility"}

RawOperatingOf(r) == sheet.data[r][IF IsPre2001Sheet THEN OldOperatingMonth ELSE RawOperatingYear]
RawRetirementOf(r) == sheet.data[r][IF IsPre2001Sheet THEN OldRetirementMonth ELSE RawRetirementYear]

BlankOrMissing(cell) == cell = Blank \/ cell = NaN

Incomplete(r) ==
    \/ BlankOrMissing(RawOperatingOf(r))
    \/ BlankOrMissing(RawRetirementOf(r))
    \/ BlankOrMissing(RawNameplateOf(r))

AllIntegers ==
    \A j \in OutputRows :
        /\ Out(operating_year, j).k = "int"
        /\ Out(retirement_year, j).k = "int"
        /\ Out(nameplate_capacity, j).k = "int"

(***************************************************************************)
(* C9: parse_retired raises and returns no table when a row that passes    *)
(* the sector / status == "RE" filter has a blank or missing               *)
(* operating_year, retirement_year or nameplate_capacity; when no such row *)
(* has one, it returns and the three columns hold integers.                *)
(***************************************************************************)
C9_MissingValueAborts ==
    (Called("parse_retired") /\ SheetOfYear) =>
        /\ (\E r \in InputRows : Retained(r) /\ Incomplete(r)) =>
              (~result.ok /\ result.df = NoFrame)
        /\ ~(\E r \in InputRows : Retained(r) /\ Incomplete(r)) => (result.ok /\ AllIntegers)

\* What holds of the code: the first half, and the second half when, for
\* year <= 2000, no row at all has a blank-string existing_nameplate
C9_RetainedIncompleteAborts ==
    (Called("parse_retired") /\ SheetOfYear) =>
        /\ (\E r \in InputRows : Retained(r) /\ Incomplete(r)) =>
              (~result.ok /\ result.df = NoFrame)
        /\ (/\ ~(\E r \in InputRows : Retained(r) /\ Incomplete(r))
            /\ ~(call.year <= 2000 /\ \E r \in InputRows : RawNameplateOf(r) = Blank)) =>
              (result.ok /\ AllIntegers)

(***************************************************************************)
(* C10: for year <= 2000 parse_retired swaps the labels operating_month /  *)
(* operating_year and retirement_month / retirement_year at once: the      *)
(* returned operating_year holds the data of the column labelled           *)
(* operating_month, retirement_year that of retirement_month, and no       *)
(* column is lost or doubled; for a year after 2000 nothing is swapped.    *)
(***************************************************************************)
C10_MonthYearSwap ==
    /\ (Called("parse_retired") /\ IsPre2001Sheet) =>
        /\ normalized[OldOperatingMonth] = operating_month
        /\ normalized[OldOperatingYear] = operating_year
        /\ normalized[OldRetirementMonth] = retirement_month
        /\ normalized[OldRetirementYear] = retirement_year
        /\ NoDuplicate(renamed)
        /\ call.year <= 2000 =>
            /\ renamed[OldOperatingMonth] = operating_year
            /\ renamed[OldOperatingYear] = operating_month
            /\ renamed[OldRetirementMonth] = retirement_year
            /\ renamed[OldRetirementYear] = retirement_month
            /\ result.ok =>
                \A j \in OutputRows :
                    /\ HasInputRow(j)
                    /\ Out(operating_year, j) = sheet.data[InputRowOf(j)][OldOperatingMonth]
                    /\ Out(retirement_year, j) = sheet.data[InputRowOf(j)][OldRetirementMonth]
        /\ call.year > 2000 =>
            \A i \in DOMAIN normalized :
                normalized[i] \in {operating_month, operating_year, retirement_month,
                                   retirement_year} => renamed[i] = normalized[i]
    /\ (Returned("parse_retired") /\ call.year > 2000) =>
        /\ renamed[RawOperatingYear] = operating_year
        /\ renamed[RawRetirementYear] = retirement_year
        /\ \A j \in OutputRows :
            /\ HasInputRow(j)
            /\ Out(operating_year, j) = sheet.data[InputRowOf(j)][RawOperatingYear]
            /\ Out(retirement_year, j) = sheet.data[InputRowOf(j)][RawRetirementYear]

C10_Witness ==
    /\ Returned("parse_retired") /\ call.year = 2000 /\ IsPre2001Sheet
    /\ Len(result.df.data) = 1
    /\ Out(operating_year, 1) = IntCell(1950) /\ Out(retirement_year, 1) = IntCell(1999)
    /\ sheet.data[InputRowOf(1)][OldOperatingYear] = IntCell(6)

====
